---- MODULE Spec2Model ----
(***************************************************************************)
(* Model of streamlit_app.py: the report pipeline (topic analysis, web     *)
(* research, draft, critique, refine, HTML rendering), its session state   *)
(* and the pure helpers the stages use.                                    *)
(*                                                                         *)
(* Python values are abstracted as follows.                                *)
(*  - A string is a TLA+ string.  Text built by an f-string keeps its      *)
(*    placeholders ("{topic}") instead of the interpolated value.          *)
(*  - A dict is a function from its keys to its values.  A field value    *)
(*    of a report or critique dict is a string token: "<null>", ""         *)
(*    (empty string), "[]" (empty list), "<num>" (a non-zero number),      *)
(*    "[bad items]" (a non-empty list whose items have the wrong type),    *)
(*    or a text / list token.                                              *)
(*  - A parsed JSON value is a record [t, d]: t is its Python type         *)
(*    ("dict", "list", "num", "None"); d is the dict, or for a list maps   *)
(*    each string element to "<item>".  A JSON string behaves like a list  *)
(*    for every operation the stages apply to a payload (membership test,  *)
(*    item read, item assignment), so "list" stands for both.              *)
(*  - A URL is a sequence of string pieces; lower() maps piece by piece    *)
(*    and `x in url` is contiguous-subsequence search.                     *)
(***************************************************************************)
EXTENDS Integers, Sequences, FiniteSets, TLC

\* ------------------------------------------------------------ bounds
MaxQueries == 7
MaxHits == 2
MaxDev == 1
MaxPlanned == 16
MaxInvocations == 2
MaxLatency == 1
MaxIdle == 2

\* ------------------------------------------------- program constants
QueryLimit == 6
MinSources == 3
min_wait_time == 2
max_retries == 3

\* ------------------------------------------------------ small helpers
Range(s) == {s[i] : i \in DOMAIN s}

Min(a, b) == IF a < b THEN a ELSE b

\* A slice that stops one item early.
TakeOneLess(s, n) == SubSeq(s, 1, Min(n - 1, Len(s)))

Take(s, n) == SubSeq(s, 1, Min(n, Len(s)))

RECURSIVE Flatten(_)
Flatten(ss) == IF ss = <<>> THEN <<>> ELSE Head(ss) \o Flatten(Tail(ss))

\* ---------------------------------------------------------------- URLs
\* str.lower() on one piece of a URL.
LowerPiece(p) ==
  CASE p = "MIT" -> "mit"
    [] p = ".EDU" -> ".edu"
    [] p = "/A" -> "/a"
    [] OTHER -> p

lower(url) == [i \in DOMAIN url |-> LowerPiece(url[i])]

\* Python's `pat in s` on strings.
Contains(s, pat) ==
  \E i \in 1..(Len(s) - Len(pat) + 1) : SubSeq(s, i, i + Len(pat) - 1) = pat

UrlMit == <<"https://", "mit", ".edu", "/a">>
UrlMitUpper == <<"https://", "MIT", ".edu", "/a">>
UrlMitB == <<"https://", "mit", ".edu", "/b">>
UrlRand == <<"https://", "www.rand", ".org", "/research">>
UrlScholar == <<"https://", "scholar.google", ".com", "/research">>
UrlResearchGate == <<"https://", "www.researchgate", ".net", "/publication">>
UrlBlog == <<"https://", "randomblog", ".example", "/post">>
UrlNature == <<"https://", "www.", "nature", ".com", "/articles">>

Urls == {UrlMit, UrlMitUpper, UrlMitB, UrlRand, UrlBlog, UrlNature}

UrlMitEduUpper == <<"https://", "mit", ".EDU", "/a">>
UrlNih == <<"https://", "www.", "nih", ".gov", "/research">>
UrlScience == <<"https://", "www.", "science", ".org", "/doi">>
UrlIeee == <<"https://", "ieee", ".org", "/document">>
UrlAcm == <<"https://", "dl.", "acm", ".org", "/doi">>
UrlIeeeEduPath == <<"https://", "ieee", ".org", "/paper", ".edu">>
UrlBlogOrgPath == <<"https://", "randomblog", ".example", "/post", ".org">>
UrlBlogQuery == <<"https://", "randomblog", ".example", "/post", "?ref=", "nature", ".com">>

\* The URLs calculate_credibility is applied to, one or more per tier.
CredUrls ==
  Urls \cup {UrlScholar, UrlResearchGate, UrlMitEduUpper, UrlNih, UrlScience,
             UrlIeee, UrlAcm, UrlIeeeEduPath, UrlBlogOrgPath, UrlBlogQuery}

trusted_domains ==
  << <<".edu">>, <<".gov">>, <<".org">>, <<"nature", ".com">>,
     <<"science", ".org">>, <<"ieee", ".org">>, <<"acm", ".org">>,
     <<"springer", ".com">>, <<"wiley", ".com">>, <<"who", ".int">>,
     <<"worldbank", ".org">>, <<"oecd", ".org">>, <<"nih", ".gov">>,
     <<"nsf", ".gov">>, <<"arxiv", ".org">>, <<"pnas", ".org">> >>

is_trusted(url) ==
  \E j \in DOMAIN trusted_domains : Contains(lower(url), trusted_domains[j])

\* The tiers with the plain .org test moved before the publisher tests.
calculate_credibility_org_first(url) ==
  LET url_lower == lower(url) IN
  IF Contains(url_lower, <<".gov">>) \/ Contains(url_lower, <<".edu">>) THEN 95
  ELSE IF Contains(url_lower, <<".org">>) THEN 85
  ELSE IF Contains(url_lower, <<"nature", ".com">>)
          \/ Contains(url_lower, <<"science", ".org">>) THEN 95
  ELSE IF Contains(url_lower, <<"ieee", ".org">>)
          \/ Contains(url_lower, <<"acm", ".org">>) THEN 90
  ELSE 80

calculate_credibility(url) ==
  LET url_lower == lower(url) IN
  IF Contains(url_lower, <<".gov">>) \/ Contains(url_lower, <<".edu">>) THEN 95
  ELSE IF Contains(url_lower, <<"nature", ".com">>)
          \/ Contains(url_lower, <<"science", ".org">>) THEN 95
  ELSE IF Contains(url_lower, <<"ieee", ".org">>)
          \/ Contains(url_lower, <<"acm", ".org">>) THEN 90
  ELSE IF Contains(url_lower, <<".org">>) THEN 85
  ELSE 80

\* ----------------------------------------------------- Python values
\* A dict is a function whose domain is its key set; {} is EmptyDict.
EmptyDict == [k \in {} |-> ""]

SetItem(d, k, x) == (k :> x) @@ d

\* A JSON list as the plan carries it: t = "list" with items v (a string
\* item is itself, the token "<7>" is an item that is not a string), or
\* t = "num" for a truthy value that is no list at all.
NonStr == "<7>"

PyList(v) == [t |-> "list", v |-> v]

PyNum == [t |-> "num", v |-> <<>>]

\* A stage's result: it returned `value`, or raised an exception with
\* message `err`.
Ret(x) == [raised |-> FALSE, err |-> "", value |-> x]

Raise(msg, dummy) == [raised |-> TRUE, err |-> msg, value |-> dummy]

\* -------------------------------------------------- backend responses
\* What one invocation of call_anthropic_api gives its caller: "raise"
\* (an exception), "none" (every attempt throttled: the retry loop ends
\* and the function returns None), "nocontent" (a JSON object without a
\* 'content' key) or "ok" (text blocks).
ApiKinds == {"raise", "none", "nocontent", "ok"}

\* call_anthropic_api as its caller sees it: without the key it raises
\* before rate_limit_wait counts the call.
call_anthropic_api(avail, kind) == IF avail THEN kind ELSE "raise"

\* A counter that counts two HTTP attempts for every invocation.
ApiCallsPerAttempt(avail, n) == IF avail THEN 2 * n ELSE 0

ApiCalls(avail, n) == IF avail THEN n ELSE 0

\* ------------------------------------------------ stage 2: web research
Source(title, url, content, query, score) ==
  [title |-> title, url |-> url, content |-> content, query |-> query,
   credibilityScore |-> score, dateAccessed |-> "<now>"]

\* The sources one search response contributes (lines 311-341): one per
\* extracted URL that matches the allowlist, in text order.
RECURSIVE HitSources(_, _)
HitSources(urls, query) ==
  IF urls = <<>> THEN <<>>
  ELSE (IF is_trusted(Head(urls))
          THEN <<Source("<context>", Head(urls), "<context>", query,
                        calculate_credibility(Head(urls)))>>
          ELSE <<>>)
       \o HitSources(Tail(urls), query)

\* A search loop that ends at the first search call that raises.
RECURSIVE SearchLoopAborts(_, _, _, _)
SearchLoopAborts(limited, res, avail, i) ==
  IF i > Len(limited) THEN <<>>
  ELSE IF call_anthropic_api(avail, res[i].kind) = "raise" THEN <<>>
  ELSE (IF call_anthropic_api(avail, res[i].kind) = "ok"
          THEN HitSources(res[i].urls, limited[i])
          ELSE <<>>)
       \o SearchLoopAborts(limited, res, avail, i + 1)

\* Lines 295-345 for queries i..: res[i] is the outcome of query i's call.
RECURSIVE SearchLoop(_, _, _, _)
SearchLoop(limited, res, avail, i) ==
  IF i > Len(limited) THEN <<>>
  ELSE (IF call_anthropic_api(avail, res[i].kind) = "ok"
          THEN HitSources(res[i].urls, limited[i])
          ELSE <<>>)
       \o SearchLoop(limited, res, avail, i + 1)

\* Lines 347-353.
RECURSIVE Deduplicate(_, _)
Deduplicate(sources, seen_urls) ==
  IF sources = <<>> THEN <<>>
  ELSE IF Head(sources).url \notin seen_urls
         THEN <<Head(sources)>>
              \o Deduplicate(Tail(sources), seen_urls \cup {Head(sources).url})
         ELSE Deduplicate(Tail(sources), seen_urls)

\* A supplement of one source only.
generic_sources_one(queries) ==
  << Source("Academic Overview: {queries[0]}", UrlScholar, "<academic>",
            queries[1], 90) >>

\* Lines 358-383.
generic_sources(queries) ==
  << Source("Academic Overview: {queries[0]}", UrlScholar, "<academic>",
            queries[1], 90),
     Source("Technical Documentation: {queries[1]}", UrlResearchGate,
            "<technical>", IF Len(queries) > 1 THEN queries[2] ELSE queries[1],
            85),
     Source("Industry Analysis: Current State and Trends", UrlRand,
            "<industry>", queries[1], 88) >>

\* Index of the first item of `limited` that is not a string, 0 if none.
FirstNonStr(limited) ==
  IF \E i \in DOMAIN limited : limited[i] = NonStr
    THEN CHOOSE i \in DOMAIN limited :
           limited[i] = NonStr /\ \A j \in 1..(i - 1) : limited[j] # NonStr
    ELSE 0

\* The record update_progress stores; percent is the exact fraction
\* num/den, capped at 100.
update_progress(stage, detail, num, den) ==
  IF num > 100 * den
    THEN [stage |-> stage, detail |-> detail, num |-> 100, den |-> 1]
    ELSE [stage |-> stage, detail |-> detail, num |-> num, den |-> den]

\* The progress updates of lines 283 and 297 up to and including query m
\* of n.
WebUpdates(n, m) ==
  <<update_progress("Web Research", "Executing searches...", 25, 1)>>
  \o [i \in 1..m |->
        update_progress("Web Research", "Query i/n", 25 * n + (i - 1) * 20, n)]

\* What a stage did besides returning: `calls` counted backend
\* invocations, `updates` its progress updates in order.
Did(calls, updates) == [calls |-> calls, updates |-> updates]

\* execute_web_research(queries), res[i] being the outcome of the i-th
\* search call.  `searched` lists the queries call_anthropic_api was
\* invoked for, in order (line 301).
execute_web_research(queries, res, avail) ==
  IF queries.t # "list"
    THEN Raise("object of type 'int' has no len()", <<>>) @@ Did(0, <<>>)
           @@ [searched |-> <<>>]
  ELSE
  LET limited == Take(queries.v, QueryLimit)
      bad == FirstNonStr(limited)
      n == Len(limited)
      sources == SearchLoop(limited, res, avail, 1)
      unique_sources == Deduplicate(sources, {})
  IN
  IF bad # 0
    THEN Raise("'int' object is not subscriptable", <<>>)
           @@ Did(ApiCalls(avail, bad - 1), WebUpdates(n, bad - 1))
           @@ [searched |-> SubSeq(limited, 1, bad - 1)]
  ELSE IF Len(unique_sources) < MinSources
    THEN IF queries.v = <<>>
           THEN Raise("list index out of range", <<>>)
                  @@ Did(0, WebUpdates(0, 0)) @@ [searched |-> <<>>]
           ELSE Ret(unique_sources \o generic_sources(queries.v))
                  @@ Did(ApiCalls(avail, n), WebUpdates(n, n))
                  @@ [searched |-> limited]
    ELSE Ret(unique_sources) @@ Did(ApiCalls(avail, n), WebUpdates(n, n))
           @@ [searched |-> limited]

\* ------------------------------------------------------- JSON payloads
Dict(d) == [t |-> "dict", d |-> d]

ListOf(S) == [t |-> "list", d |-> [k \in S |-> "<item>"]]

NumVal == [t |-> "num", d |-> EmptyDict]

NoneVal == [t |-> "None", d |-> EmptyDict]

Garbage == [t |-> "garbage", d |-> EmptyDict]

\* The text of a response: `json` is the JSON value it spells (Garbage
\* when it spells none), `fenced` says it is wrapped in a ```json fence,
\* `prose` that brace-free prose surrounds it.
Text(json, fenced, prose) == [json |-> json, fenced |-> fenced, prose |-> prose]

\* parse_json_response: the fence is stripped; text that is JSON alone
\* loads as it is; otherwise the span from the first "{" to the last "}"
\* is loaded, which succeeds exactly for an object in prose; anything
\* else gives {}.
parse_json_response(text) ==
  IF text.json.t = "garbage" THEN Dict(EmptyDict)
  ELSE IF ~text.prose THEN text.json
  ELSE IF text.json.t = "dict" THEN text.json
  ELSE Dict(EmptyDict)

\* A backend response: kind as in ApiKinds, text read only when "ok".
Resp(kind, text) == [kind |-> kind, text |-> text]

Failed(kind) == Resp(kind, Text(Garbage, FALSE, FALSE))

\* Python truthiness of a field token.
Truthy(x) == x \notin {"", "<null>", "[]", "<zero>"}

\* ------------------------------------------- stage 1: topic analysis
\* Truthiness of a plan field (a PyList, PyNum or null).
TruthyList(x) == x.t = "num" \/ (x.t = "list" /\ x.v # <<>>)

PyNull == [t |-> "null", v |-> <<>>]

Plan(subtopics, researchQueries) ==
  [subtopics |-> subtopics, researchQueries |-> researchQueries]

\* Lines 263-278.
FallbackPlan(topic) ==
  Plan(PyList(<<"Overview of " \o topic, "Current State and Statistics",
                "Applications and Use Cases", "Challenges and Limitations",
                "Future Outlook">>),
       PyList(<<topic \o " overview", topic \o " latest research",
                topic \o " statistics", topic \o " applications",
                topic \o " future trends">>))

\* Lines 241-247.
DefaultSubtopics(topic, subject) ==
  PyList(<<"Core Concepts in " \o subject, "Current State of " \o topic,
           "Applications and Use Cases", "Challenges and Limitations",
           "Future Directions">>)

\* Lines 250-256.
DefaultQueries(topic, subject) ==
  PyList(<<topic \o " overview " \o subject, "Latest developments in " \o topic,
           topic \o " statistics and data", topic \o " applications",
           "Future of " \o topic>>)

TopicUpdates ==
  <<update_progress("Topic Analysis",
                    "Decomposing topic into research dimensions...", 10, 1)>>

\* result.get(key) being falsy: key missing or value falsy.
Missing(d, key) == key \notin DOMAIN d \/ ~TruthyList(d[key])

\* analyze_topic_with_ai.  value.t = "None" is the function ending
\* without a return statement.
analyze_topic_with_ai(topic, subject, resp, avail) ==
  LET kind == call_anthropic_api(avail, resp.kind)
      result == parse_json_response(resp.text)
      r1 == IF Missing(result.d, "subtopics")
              THEN SetItem(result.d, "subtopics", DefaultSubtopics(topic, subject))
              ELSE result.d
      r2 == IF Missing(r1, "researchQueries")
              THEN SetItem(r1, "researchQueries", DefaultQueries(topic, subject))
              ELSE r1
      did == Did(ApiCalls(avail, 1), TopicUpdates)
  IN
  IF kind = "nocontent" THEN Ret(NoneVal) @@ did
  ELSE IF kind = "ok" /\ result.t = "dict" THEN Ret(Dict(r2)) @@ did
  ELSE Ret(Dict(FallbackPlan(topic))) @@ did

\* ---------------------------------------------------- stage 3: draft
required_keys ==
  <<"abstract", "introduction", "literatureReview", "mainSections",
    "dataAnalysis", "challenges", "futureOutlook", "conclusion">>

\* ', '.join(x) raising: x is no iterable, or holds an item that is not
\* a string.
JoinRaises(x) == x.t # "list" \/ NonStr \in Range(x.v)

\* Line 460 / line 462.
Placeholder(key, topic) ==
  IF key = "mainSections" THEN "[Main Analysis]"
  ELSE "This section covers " \o key \o " aspects of " \o topic \o "."

\* Lines 457-462 with the emptiness test of line 458 left out.
RECURSIVE FillRequiredMissingOnly(_, _, _)
FillRequiredMissingOnly(draft_data, topic, i) ==
  IF i > Len(required_keys) THEN draft_data
  ELSE LET key == required_keys[i] IN
       FillRequiredMissingOnly(
         IF key \notin DOMAIN draft_data
           THEN SetItem(draft_data, key, Placeholder(key, topic))
           ELSE draft_data,
         topic, i + 1)

\* Lines 457-462 for required_keys[i..].
RECURSIVE FillRequired(_, _, _)
FillRequired(draft_data, topic, i) ==
  IF i > Len(required_keys) THEN draft_data
  ELSE LET key == required_keys[i] IN
       FillRequired(
         IF key \notin DOMAIN draft_data \/ ~Truthy(draft_data[key])
           THEN SetItem(draft_data, key, Placeholder(key, topic))
           ELSE draft_data,
         topic, i + 1)

\* The title of fallback section i (lines 475-477).
FallbackTitle(subtopics, i, default) ==
  IF Len(subtopics) >= i THEN subtopics[i] ELSE default

\* Lines 470-483.
FallbackDraft(topic, subject, subtopics) ==
  [abstract |-> "This report examines " \o topic \o " in the context of "
                \o subject \o ", analyzing current developments, challenges, and future directions.",
   introduction |-> "The field of " \o subject
                    \o " has seen significant developments in " \o topic
                    \o ". This report provides a comprehensive analysis based on current research and expert sources.",
   literatureReview |-> "A review of academic literature and authoritative sources reveals multiple perspectives and findings relevant to this topic.",
   mainSections |-> "[" \o FallbackTitle(subtopics, 1, "Core Concepts") \o "; "
                    \o FallbackTitle(subtopics, 2, "Current State") \o "; "
                    \o FallbackTitle(subtopics, 3, "Applications") \o "]",
   dataAnalysis |-> "Statistical analysis and data-driven insights from authoritative sources.",
   challenges |-> "Current challenges and limitations identified in the research.",
   futureOutlook |-> "Projected future developments and potential directions for advancement.",
   conclusion |-> "This report has examined " \o topic
                  \o " comprehensively, identifying key trends, challenges, and opportunities for future development."]

DraftUpdates ==
  <<update_progress("Drafting",
                    "Synthesizing research into comprehensive report...", 50, 1)>>

\* generate_draft without the except clause of line 466: a failed
\* backend call propagates.
generate_draft_propagates(topic, subject, subtopics, sources, resp, avail) ==
  LET kind == call_anthropic_api(avail, resp.kind)
      draft_data == parse_json_response(resp.text)
      did == Did(ApiCalls(avail, 1), DraftUpdates)
  IN
  IF JoinRaises(subtopics) \/ kind = "raise"
    THEN Raise("draft generation failed", NoneVal) @@ Did(0, DraftUpdates)
  ELSE IF kind = "ok" /\ draft_data.t = "dict"
    THEN Ret(Dict(FillRequired(draft_data.d, topic, 1))) @@ did
  ELSE Ret(Dict(FallbackDraft(topic, subject, subtopics.v))) @@ did

\* generate_draft.  A payload that is no dict makes line 458 or 460/462
\* raise TypeError inside the try, whatever it holds.
generate_draft(topic, subject, subtopics, sources, resp, avail) ==
  LET kind == call_anthropic_api(avail, resp.kind)
      draft_data == parse_json_response(resp.text)
      did == Did(ApiCalls(avail, 1), DraftUpdates)
  IN
  IF JoinRaises(subtopics)
    THEN Raise(IF subtopics.t # "list" THEN "can only join an iterable"
               ELSE "sequence item: expected str instance, int found",
               NoneVal) @@ Did(0, DraftUpdates)
  ELSE IF kind = "ok" /\ draft_data.t = "dict"
    THEN Ret(Dict(FillRequired(draft_data.d, topic, 1))) @@ did
  ELSE Ret(Dict(FallbackDraft(topic, subject, subtopics.v))) @@ did

\* ------------------------------------------------- stage 4: critique
list_keys ==
  <<"factIssues", "flowIssues", "unsupportedClaims", "biasFlags",
    "structuralWeaknesses", "citationIssues", "recommendations">>

\* Lines 534-537 for list_keys[i..].
RECURSIVE FillLists(_, _)
FillLists(critique_data, i) ==
  IF i > Len(list_keys) THEN critique_data
  ELSE FillLists(IF list_keys[i] \notin DOMAIN critique_data
                   THEN SetItem(critique_data, list_keys[i], "[]")
                   ELSE critique_data,
                 i + 1)

\* Lines 544-553.
FallbackCritique ==
  [factIssues |-> "[]", flowIssues |-> "[]", unsupportedClaims |-> "[]",
   biasFlags |-> "[]", structuralWeaknesses |-> "[]", citationIssues |-> "[]",
   overallScore |-> "80",
   recommendations |-> "[Review completed with standard quality assessment]"]

CritiqueUpdates ==
  <<update_progress("Review", "Critical analysis by reviewer agent...", 70, 1)>>

\* critique_draft.  On a list payload the key tests of lines 531 and 536
\* are element tests: an absent name makes the assignment raise
\* TypeError (caught), and a list naming all eight keys is returned as
\* it is.  Any other non-dict payload raises at line 531.
critique_draft(draft, sources, resp, avail) ==
  LET kind == call_anthropic_api(avail, resp.kind)
      critique_data == parse_json_response(resp.text)
      did == Did(ApiCalls(avail, 1), CritiqueUpdates)
  IN
  IF kind = "ok" /\ critique_data.t = "dict"
    THEN Ret(Dict(FillLists(
               IF "overallScore" \notin DOMAIN critique_data.d
                 THEN SetItem(critique_data.d, "overallScore", "80")
                 ELSE critique_data.d, 1))) @@ did
  ELSE IF kind = "ok" /\ critique_data.t = "list"
          /\ ({"overallScore"} \cup Range(list_keys)) \subseteq DOMAIN critique_data.d
    THEN Ret(critique_data) @@ did
  ELSE Ret(Dict(FallbackCritique)) @@ did

\* --------------------------------------------------- stage 5: refine
\* critique.get('recommendations', [])[:3] joined by ', ' (line 567)
\* raising TypeError: the value cannot be sliced (None, a number) or
\* holds items that are not strings.
RecommendationsRaise(critique) ==
  /\ "recommendations" \in DOMAIN critique
  /\ critique["recommendations"] \in {"<null>", "<num>", "[bad items]"}

\* Line 590.
DefaultSummary(sources) ==
  "This comprehensive research report examines key aspects of the topic, drawing on "
  \o ToString(Len(sources))
  \o " authoritative sources to provide insights, analysis, and recommendations."

\* Line 603.
FallbackSummary(sources) ==
  "This report provides comprehensive analysis and insights based on research from "
  \o ToString(Len(sources))
  \o " authoritative sources, examining key developments, challenges, and future directions."

\* Lines 593-595: the keys of draft that refined_data lacks, copied.
MergeDraft(refined_data, draft) ==
  [k \in DOMAIN refined_data \cup DOMAIN draft |->
     IF k \in DOMAIN refined_data THEN refined_data[k] ELSE draft[k]]

RefineUpdates ==
  <<update_progress("Refinement", "Applying editorial improvements...", 85, 1)>>

\* refine_draft.  `draft` in the result is the caller's draft object
\* after the call: line 603 assigns into it.  On a list payload lines
\* 589 and 594 are element tests: a missing name makes the assignment
\* raise TypeError (caught), and a list naming executiveSummary and
\* every key of the draft is returned as it is.
refine_draft(draft, critique, sources, resp, avail) ==
  LET kind == call_anthropic_api(avail, resp.kind)
      refined_data == parse_json_response(resp.text)
      did == Did(ApiCalls(avail, 1), RefineUpdates)
      withSummary == IF "executiveSummary" \notin DOMAIN refined_data.d
                       THEN SetItem(refined_data.d, "executiveSummary",
                                    DefaultSummary(sources))
                       ELSE refined_data.d
      mutated == Dict(SetItem(draft.d, "executiveSummary", FallbackSummary(sources)))
  IN
  IF critique.t # "dict"
    THEN Raise("'list' object has no attribute 'get'", NoneVal)
           @@ Did(0, RefineUpdates) @@ [draft |-> draft]
  ELSE IF RecommendationsRaise(critique.d)
    THEN Raise("recommendations cannot be joined", NoneVal)
           @@ Did(0, RefineUpdates) @@ [draft |-> draft]
  ELSE IF kind = "ok" /\ refined_data.t = "dict"
    THEN Ret(Dict(MergeDraft(withSummary, draft.d))) @@ did @@ [draft |-> draft]
  ELSE IF kind = "ok" /\ refined_data.t = "list"
          /\ ({"executiveSummary"} \cup DOMAIN draft.d) \subseteq DOMAIN refined_data.d
    THEN Ret(refined_data) @@ did @@ [draft |-> draft]
  ELSE Ret(mutated) @@ did @@ [draft |-> mutated]

\* ---------------------------------------------- stage 6: HTML report
\* Lines 703-707 raising: mainSections is present and cannot be iterated
\* (None, a number) or holds items without .get.
SectionsRaise(refined) ==
  /\ "mainSections" \in DOMAIN refined
  /\ refined["mainSections"] \in {"<null>", "<num>", "[bad items]"}

\* refined_draft.get(key, default) as the template prints it.
Shown(refined, key, default) ==
  IF key \in DOMAIN refined THEN refined[key] ELSE default

\* The days a report may be rendered on, as strftime('%B %d, %Y') prints
\* them.
Days == {"January 01, 2024", "January 02, 2024"}

\* Lines 728-731: dateAccessed parsed by datetime.fromisoformat and printed
\* by strftime.  "<now>" is the isoformat() text web research stored; a
\* missing key ("<missing>") or text that is no ISO date makes the parse
\* raise, and the bare except takes the day of the call.
source_date(dateAccessed, today) ==
  CASE dateAccessed = "<now>" -> "<day of research>"
    [] dateAccessed = "2024-05-01T10:00:00" -> "May 01, 2024"
    [] OTHER -> today

\* A reference list numbered by enumerate(sources), from 0.
ReferencesFromZero(sources, today) ==
  [i \in DOMAIN sources |->
     [number |-> i - 1, title |-> sources[i].title, url |-> sources[i].url,
      accessed |-> source_date(sources[i].dateAccessed, today)]]

\* Lines 727-738: entry i is numbered i.
References(sources, today) ==
  [i \in DOMAIN sources |->
     [number |-> i, title |-> sources[i].title, url |-> sources[i].url,
      accessed |-> source_date(sources[i].dateAccessed, today)]]

ReportUpdates ==
  <<update_progress("Report Generation", "Creating professional document...", 95, 1)>>

\* generate_html_report called on the day `today`: the document as the
\* values the f-strings print, each exactly as it was given.
generate_html_report(refined_draft, form_data, sources, today) ==
  IF refined_draft.t # "dict"
    THEN Raise("'list' object has no attribute 'get'", EmptyDict)
           @@ Did(0, ReportUpdates)
  ELSE IF SectionsRaise(refined_draft.d)
    THEN Raise("mainSections cannot be rendered", EmptyDict)
           @@ Did(0, ReportUpdates)
  ELSE Ret([title |-> form_data.topic,
            subject |-> form_data.subject,
            researcher |-> form_data.researcher,
            institution |-> form_data.institution,
            executiveSummary |-> Shown(refined_draft.d, "executiveSummary",
                                       "Executive summary not available."),
            abstract |-> Shown(refined_draft.d, "abstract", "Abstract not available."),
            introduction |-> Shown(refined_draft.d, "introduction",
                                   "Introduction not available."),
            literatureReview |-> Shown(refined_draft.d, "literatureReview",
                                       "Literature review not available."),
            mainSections |-> Shown(refined_draft.d, "mainSections", "[]"),
            dataAnalysis |-> Shown(refined_draft.d, "dataAnalysis",
                                   "Data analysis not available."),
            challenges |-> Shown(refined_draft.d, "challenges",
                                 "Challenges not available."),
            futureOutlook |-> Shown(refined_draft.d, "futureOutlook",
                                    "Future outlook not available."),
            conclusion |-> Shown(refined_draft.d, "conclusion",
                                 "Conclusion not available."),
            references |-> References(sources, today)])
         @@ Did(0, ReportUpdates)

\* ------------------------------------------------------ session state
VARIABLES
  step,            \* st.session_state.step
  form_data,       \* st.session_state.form_data
  progress,        \* st.session_state.progress
  research,        \* st.session_state.research
  draft,           \* st.session_state.draft (the object draft_content names)
  critique,        \* st.session_state.critique
  final_report,    \* st.session_state.final_report
  html_report,     \* st.session_state.html_report; present = FALSE when unset
  is_processing,   \* st.session_state.is_processing
  api_call_count,  \* st.session_state.api_call_count
  API_AVAILABLE,   \* the module-level flag as the latest script run set it
  pc,              \* the stage execute_research_pipeline calls next, or "idle"
  invoked,         \* history: the stage calls of the current run, in order
  backend_down,    \* history: every backend call of the current run raised
  reset_from,      \* history: the step the latest reset_system left, or "none"
  net,             \* the clock, last_api_call_time and call_anthropic_api's position
  fn,              \* the function applied in a single-function check
  arg,             \* its arguments
  out              \* its result, once applied

vars == <<step, form_data, progress, research, draft, critique, final_report,
          html_report, is_processing, api_call_count, API_AVAILABLE, pc,
          invoked, backend_down, reset_from, net, fn, arg, out>>

\* Everything but the backend client.
session_state == <<step, form_data, progress, research, draft, critique,
                   final_report, html_report, is_processing, api_call_count,
                   API_AVAILABLE, pc, invoked, backend_down, reset_from>>

session == <<step, form_data, progress, research, draft, critique,
             final_report, html_report, is_processing, api_call_count,
             API_AVAILABLE, pc, invoked, backend_down, reset_from, net>>

Form(topic, subject, researcher, institution) ==
  [topic |-> topic, subject |-> subject, researcher |-> researcher,
   institution |-> institution, date |-> "<today>"]

BlankForm == Form("", "", "", "")

\* What the user may have typed into the form.
Forms ==
  {BlankForm, Form("AI in Healthcare", "Medicine", "R. Roe", ""),
   Form("AI in Healthcare", "Medicine", "R. Roe", "Univ")}

\* Line 900.
is_form_valid(f) ==
  f.topic # "" /\ f.subject # "" /\ f.researcher # "" /\ f.institution # ""

NoProgress == [stage |-> "", detail |-> "", num |-> 0, den |-> 1]

NoResearch ==
  [queries |-> PyList(<<>>), sources |-> <<>>, subtopics |-> PyList(<<>>)]

NoHtml == [present |-> FALSE, doc |-> EmptyDict]

\* Lines 79-80 and the backend client at rest.  Times are whole seconds;
\* `now` is the clock time.time() reads, and starts well after the epoch.
\* History: `last_sent` is the time the latest request of the session was
\* sent and `min_gap` the shortest time between two consecutive requests
\* (-1: none yet); `tries` counts the requests of the latest invocation,
\* `waits` its back-off sleeps, `result` how it ended.
NetInit ==
  [now |-> 10, last_api_call_time |-> 0, pc |-> "idle", attempt |-> 0,
   last_sent |-> -1, min_gap |-> -1, tries |-> 0, waits |-> <<>>,
   result |-> "none", invocations |-> 0]

\* The client's record once a request is sent at net.now.
Sending ==
  LET gap == net.now - net.last_sent IN
  [net EXCEPT !.last_sent = net.now,
              !.tries = @ + 1,
              !.min_gap = IF net.last_sent = -1 THEN -1
                          ELSE IF net.min_gap = -1 \/ gap < net.min_gap THEN gap
                          ELSE net.min_gap]

\* Lines 47-88: the state of a fresh session.
SessionInit ==
  /\ step = "input"
  /\ form_data = BlankForm
  /\ progress = NoProgress
  /\ research = NoResearch
  /\ draft = NoneVal
  /\ critique = NoneVal
  /\ final_report = NoneVal
  /\ html_report = NoHtml
  /\ is_processing = FALSE
  /\ api_call_count = 0
  /\ API_AVAILABLE \in BOOLEAN
  /\ pc = "idle"
  /\ invoked = <<>>
  /\ backend_down = TRUE
  /\ reset_from = "none"
  /\ net = NetInit

NoCall == [name |-> "none"]

Init == SessionInit /\ fn = "none" /\ arg = NoCall /\ out = NoCall

\* One entry of the call history: the stage, the arguments it was given
\* and its result.
Called(stage, args, r) ==
  [stage |-> stage, args |-> args, raised |-> r.raised, value |-> r.value]

Last(s) == s[Len(s)]

\* An except clause that records the error and leaves the step alone.
FailStaysProcessing(e) ==
  /\ progress' = update_progress("Error", e, 0, 1)
  /\ step' = "processing"
  /\ is_processing' = FALSE
  /\ pc' = "idle"

\* An except clause that records the error and lets the sequence go on.
FailContinues(e) ==
  /\ progress' = update_progress("Error", e, 0, 1)
  /\ step' = "error"
  /\ is_processing' = FALSE
  /\ pc' = "report"

\* Lines 812-817: the except and finally clauses.
Fail(e) ==
  /\ progress' = update_progress("Error", e, 0, 1)
  /\ step' = "error"
  /\ is_processing' = FALSE
  /\ pc' = "idle"

\* An input page drawn whatever the step is.
EditFormAnyStep(f, avail) ==
  /\ pc = "idle"
  /\ form_data' = f
  /\ API_AVAILABLE' = avail
  /\ UNCHANGED <<step, progress, research, draft, critique, final_report,
                 html_report, is_processing, api_call_count, pc, invoked,
                 backend_down, reset_from, net, fn, arg, out>>

\* Lines 858-898: a script run of the input page stores the widgets'
\* values; every script run reads the secrets again (lines 83-88).
EditForm(f, avail) ==
  /\ step = "input"
  /\ pc = "idle"
  /\ form_data' = f
  /\ API_AVAILABLE' = avail
  /\ UNCHANGED <<step, progress, research, draft, critique, final_report,
                 html_report, is_processing, api_call_count, pc, invoked,
                 backend_down, reset_from, net, fn, arg, out>>

\* GenerateReport without the credential check of lines 754-755.
GenerateReportUnchecked(avail) ==
  /\ step = "input"
  /\ pc = "idle"
  /\ is_form_valid(form_data)
  /\ API_AVAILABLE
  /\ API_AVAILABLE' = avail
  /\ api_call_count' = 0
  /\ invoked' = <<>>
  /\ backend_down' = TRUE
  /\ is_processing' = TRUE
  /\ step' = "processing"
  /\ pc' = "analysis"
  /\ UNCHANGED <<progress, form_data, research, draft, critique, final_report,
                 html_report, reset_from, net, fn, arg, out>>

\* Lines 909-915 and 747-755: a click on "Generate Report" starts a script
\* run (which reads the secrets: avail) and calls
\* execute_research_pipeline.  The button was enabled by the script run
\* that drew it.
GenerateReport(avail) ==
  /\ step = "input"
  /\ pc = "idle"
  /\ is_form_valid(form_data)
  /\ API_AVAILABLE
  /\ API_AVAILABLE' = avail
  /\ api_call_count' = 0
  /\ invoked' = <<>>
  /\ backend_down' = TRUE
  /\ IF ~avail
       THEN Fail("Anthropic API key not configured in Streamlit secrets.")
       ELSE /\ is_processing' = TRUE
            /\ step' = "processing"
            /\ pc' = "analysis"
            /\ UNCHANGED progress
  /\ UNCHANGED <<form_data, research, draft, critique, final_report,
                 html_report, reset_from, net, fn, arg, out>>

\* ------------------------------------------- backend outcomes explored
Texts(json) == {Text(json, f, p) : f \in BOOLEAN, p \in BOOLEAN}

ApiFailures == {Failed("raise"), Failed("none"), Failed("nocontent")}

\* Every failure, and every way of spelling each payload (or no JSON).
AllResponses(payloads) ==
  ApiFailures
  \cup {Resp("ok", t) : t \in UNION {Texts(j) : j \in payloads \cup {Garbage}}}

\* Every failure, and each payload (or no JSON) spelled plainly.
Responses(payloads) ==
  ApiFailures
  \cup {Resp("ok", Text(j, FALSE, FALSE)) : j \in payloads \cup {Garbage}}

GivenQueries(n) == [i \in 1..n |-> "query " \o ToString(i)]

GivenSubtopics == PyList(<<"Subtopic 1", "Subtopic 2">>)

SubtopicFields ==
  {PyNull, PyList(<<>>), PyNum, PyList(<<"Subtopic 1", NonStr>>), GivenSubtopics}

QueryFields ==
  {PyNull, PyList(<<>>), PyNum, PyList(<<"query 1", NonStr>>)}
  \cup {PyList(GivenQueries(n)) : n \in 1..MaxQueries}

\* Plan dicts: each of the two keys present or not, with any field.
PlanDicts ==
  {EmptyDict}
  \cup {[subtopics |-> x] : x \in SubtopicFields}
  \cup {[researchQueries |-> q] : q \in QueryFields}
  \cup {Plan(x, q) : x \in SubtopicFields, q \in QueryFields}

\* The plan payloads a run explores: well formed with one query and with
\* more queries than are searched, and each wrong shape once.
PlanPayloads ==
  {Dict(EmptyDict), ListOf({}),
   Dict(Plan(GivenSubtopics, PyList(GivenQueries(1)))),
   Dict(Plan(GivenSubtopics, PyList(GivenQueries(MaxPlanned)))),
   Dict(Plan(GivenSubtopics, PyNum)),
   Dict(Plan(GivenSubtopics, PyList(<<"query 1", NonStr>>))),
   Dict(Plan(PyNum, PyList(GivenQueries(1)))),
   Dict(Plan(PyList(<<"Subtopic 1", NonStr>>), PyNull))}

FullDraft ==
  [abstract |-> "generated text", introduction |-> "generated text",
   literatureReview |-> "generated text", mainSections |-> "[generated sections]",
   dataAnalysis |-> "generated text", challenges |-> "generated text",
   futureOutlook |-> "generated text", conclusion |-> "generated text"]

BlankDraft ==
  [abstract |-> "", introduction |-> "", literatureReview |-> "",
   mainSections |-> "[]", dataAnalysis |-> "", challenges |-> "",
   futureOutlook |-> "", conclusion |-> ""]

FullRefined == SetItem(FullDraft, "executiveSummary", "generated text")

BlankRefined == SetItem(BlankDraft, "executiveSummary", "")

FullCritique ==
  [factIssues |-> "[generated items]", flowIssues |-> "[generated items]",
   unsupportedClaims |-> "[generated items]", biasFlags |-> "[generated items]",
   structuralWeaknesses |-> "[generated items]",
   citationIssues |-> "[generated items]", overallScore |-> "85",
   recommendations |-> "[generated items]"]

DocKeys == Range(required_keys) \cup {"executiveSummary", "appendix"}

CritiqueKeys == Range(list_keys) \cup {"overallScore"}

\* Field values a payload may carry in place of the expected one.
DevVals == {"", "<null>", "[]", "<num>", "[bad items]"}

Remove(d, k) == [x \in DOMAIN d \ {k} |-> d[x]]

\* The dicts that differ from one of `bases` in at most n keys.
RECURSIVE Family(_, _, _, _)
Family(bases, keys, vals, n) ==
  IF n = 0 THEN bases
  ELSE LET F == Family(bases, keys, vals, n - 1) IN
       F \cup UNION {{SetItem(d, k, x) : k \in keys, x \in vals}
                     \cup {Remove(d, k) : k \in DOMAIN d} : d \in F}

DraftPayloads == {Dict(FullDraft), Dict(BlankDraft), ListOf(DocKeys), NumVal}

CritiquePayloads ==
  {Dict(FullCritique), ListOf(CritiqueKeys), ListOf({"overallScore"}),
   Dict(SetItem(FullCritique, "recommendations", "<null>"))}

RefinePayloads ==
  {Dict(FullRefined), Dict(BlankRefined), ListOf(DocKeys), NumVal,
   Dict(SetItem(FullRefined, "mainSections", "<num>"))}

SearchResult(kind, urls) == [kind |-> kind, urls |-> urls]

\* The outcomes of one search call a run explores: a failure and two
\* texts with hits (WebResults has the other ways of finding nothing).
SearchResults ==
  {SearchResult("raise", <<>>),
   SearchResult("ok", <<UrlMit, UrlMitUpper>>),
   SearchResult("ok", <<UrlMit, UrlRand, UrlBlog>>)}

\* --------------------------------------- execute_research_pipeline
\* What every stage call leaves behind.
Record(stage, args, allRaised, r) ==
  /\ api_call_count' = api_call_count + r.calls
  /\ invoked' = Append(invoked, Called(stage, args, r))
  /\ backend_down' = (backend_down /\ allRaised)

\* Lines 757-768.
AnalysisStage(resp) ==
  /\ pc = "analysis"
  /\ LET r == analyze_topic_with_ai(form_data.topic, form_data.subject, resp,
                                    API_AVAILABLE)
     IN /\ Record("analysis", <<form_data.topic, form_data.subject>>,
                  resp.kind = "raise", r)
        /\ IF r.value.t = "None"
             THEN Fail("'NoneType' object is not subscriptable")
                  /\ UNCHANGED research
             ELSE /\ research' = [subtopics |-> r.value.d.subtopics,
                                  queries |-> r.value.d.researchQueries,
                                  sources |-> <<>>]
                  /\ progress' = Last(r.updates)
                  /\ pc' = "research"
                  /\ UNCHANGED <<step, is_processing>>
  /\ UNCHANGED <<form_data, draft, critique, final_report, html_report,
                 API_AVAILABLE, reset_from, net, fn, arg, out>>

\* Lines 770-776.
ResearchStage(res) ==
  /\ pc = "research"
  /\ LET r == execute_web_research(research.queries, res, API_AVAILABLE)
     IN /\ Record("research", <<research.queries>>,
                  \A i \in DOMAIN res : res[i].kind = "raise", r)
        /\ IF r.raised
             THEN Fail(r.err) /\ UNCHANGED research
             ELSE /\ research' = [research EXCEPT !.sources = r.value]
                  /\ progress' = Last(r.updates)
                  /\ pc' = "draft"
                  /\ UNCHANGED <<step, is_processing>>
  /\ UNCHANGED <<form_data, draft, critique, final_report, html_report,
                 API_AVAILABLE, reset_from, net, fn, arg, out>>

\* Lines 778-786.
DraftStage(resp) ==
  /\ pc = "draft"
  /\ LET r == generate_draft(form_data.topic, form_data.subject,
                             research.subtopics, research.sources, resp,
                             API_AVAILABLE)
     IN /\ Record("draft", <<form_data.topic, form_data.subject,
                             research.subtopics, research.sources>>,
                  resp.kind = "raise", r)
        /\ IF r.raised
             THEN Fail(r.err) /\ UNCHANGED draft
             ELSE /\ draft' = r.value
                  /\ progress' = Last(r.updates)
                  /\ pc' = "critique"
                  /\ UNCHANGED <<step, is_processing>>
  /\ UNCHANGED <<form_data, research, critique, final_report, html_report,
                 API_AVAILABLE, reset_from, net, fn, arg, out>>

\* Lines 788-791.  critique_draft never raises.
CritiqueStage(resp) ==
  /\ pc = "critique"
  /\ LET r == critique_draft(draft, research.sources, resp, API_AVAILABLE)
     IN /\ Record("critique", <<draft, research.sources>>,
                  resp.kind = "raise", r)
        /\ critique' = r.value
        /\ progress' = Last(r.updates)
        /\ pc' = "refine"
  /\ UNCHANGED <<step, is_processing, form_data, research, draft,
                 final_report, html_report, API_AVAILABLE, reset_from,
                 net, fn, arg, out>>

\* Lines 793-796.  The draft object is the one refine_draft was given.
RefineStage(resp) ==
  /\ pc = "refine"
  /\ LET r == refine_draft(draft, critique, research.sources, resp,
                           API_AVAILABLE)
     IN /\ Record("refine", <<draft, critique, research.sources>>,
                  resp.kind = "raise", r)
        /\ draft' = r.draft
        /\ IF r.raised
             THEN Fail(r.err) /\ UNCHANGED final_report
             ELSE /\ final_report' = r.value
                  /\ progress' = Last(r.updates)
                  /\ pc' = "report"
                  /\ UNCHANGED <<step, is_processing>>
  /\ UNCHANGED <<form_data, research, critique, html_report, API_AVAILABLE,
                 reset_from, net, fn, arg, out>>

\* ReportStage rendering the draft instead of the refined document.
ReportStageRendersDraft(today) ==
  /\ pc = "report"
  /\ LET r == generate_html_report(draft, form_data, research.sources, today)
     IN /\ Record("report", <<draft, form_data, research.sources>>, TRUE, r)
        /\ IF r.raised
             THEN Fail(r.err) /\ UNCHANGED html_report
             ELSE /\ progress' = update_progress("Complete",
                                   "Report generated successfully!", 100, 1)
                  /\ html_report' = [present |-> TRUE, doc |-> r.value]
                  /\ step' = "complete"
                  /\ is_processing' = FALSE
                  /\ pc' = "idle"
  /\ UNCHANGED <<form_data, research, draft, critique, final_report,
                 API_AVAILABLE, reset_from, net, fn, arg, out>>

\* Lines 798-810 and 816-817.
ReportStage(today) ==
  /\ pc = "report"
  /\ LET r == generate_html_report(final_report, form_data, research.sources,
                                   today)
     IN /\ Record("report", <<final_report, form_data, research.sources>>,
                  TRUE, r)
        /\ IF r.raised
             THEN Fail(r.err) /\ UNCHANGED html_report
             ELSE /\ progress' = update_progress("Complete",
                                   "Report generated successfully!", 100, 1)
                  /\ html_report' = [present |-> TRUE, doc |-> r.value]
                  /\ step' = "complete"
                  /\ is_processing' = FALSE
                  /\ pc' = "idle"
  /\ UNCHANGED <<form_data, research, draft, critique, final_report,
                 API_AVAILABLE, reset_from, net, fn, arg, out>>

\* A reset that leaves the research record as the run left it.
reset_system_keeps_research(avail) ==
  /\ step \in {"complete", "error"}
  /\ step' = "input"
  /\ form_data' = BlankForm
  /\ progress' = NoProgress
  /\ draft' = NoneVal
  /\ critique' = NoneVal
  /\ final_report' = NoneVal
  /\ is_processing' = FALSE
  /\ api_call_count' = 0
  /\ html_report' = NoHtml
  /\ API_AVAILABLE' = avail
  /\ invoked' = <<>>
  /\ backend_down' = TRUE
  /\ reset_from' = step
  /\ UNCHANGED <<research, pc, net, fn, arg, out>>

\* Lines 819-845, called by "Generate Another Report" (1102-1104) and
\* "Try Again" (1127-1129); the click's script run reads the secrets.
reset_system(avail) ==
  /\ step \in {"complete", "error"}
  /\ step' = "input"
  /\ form_data' = BlankForm
  /\ progress' = NoProgress
  /\ research' = NoResearch
  /\ draft' = NoneVal
  /\ critique' = NoneVal
  /\ final_report' = NoneVal
  /\ is_processing' = FALSE
  /\ api_call_count' = 0
  /\ html_report' = NoHtml
  /\ API_AVAILABLE' = avail
  /\ invoked' = <<>>
  /\ backend_down' = TRUE
  /\ reset_from' = step
  /\ UNCHANGED <<pc, net, fn, arg, out>>

\* ------------------------------------------ the backend client in time
\* Lines 113-122: the time rate_limit_wait returns at when called at t.
rate_limit_wait(t, last_api_call_time) ==
  LET time_since_last_call == t - last_api_call_time IN
  IF time_since_last_call < min_wait_time
    THEN t + (min_wait_time - time_since_last_call)
    ELSE t

\* Lines 142-148: call_anthropic_api is entered `idle` seconds after the
\* previous invocation ended.
Invoke(idle) ==
  /\ net.pc = "idle"
  /\ net.invocations < MaxInvocations
  /\ LET t == net.now + idle
         started == rate_limit_wait(t, net.last_api_call_time)
     IN IF ~API_AVAILABLE
          THEN /\ net' = [net EXCEPT !.now = t, !.result = "raised",
                                     !.tries = 0, !.waits = <<>>,
                                     !.invocations = @ + 1]
               /\ UNCHANGED api_call_count
          ELSE /\ net' = [net EXCEPT !.now = started,
                                     !.last_api_call_time = started,
                                     !.pc = "request", !.attempt = 0,
                                     !.tries = 0, !.waits = <<>>,
                                     !.result = "none",
                                     !.invocations = @ + 1]
               /\ api_call_count' = api_call_count + 1
  /\ UNCHANGED <<step, form_data, progress, research, draft, critique,
                 final_report, html_report, is_processing, API_AVAILABLE, pc,
                 invoked, backend_down, reset_from, fn, arg, out>>

\* One pass of the retry loop whose back-off does not grow.
AttemptFixedBackoff(outcome, latency) ==
  /\ net.pc = "request"
  /\ LET k == net.attempt + 1
         answered == net.now + latency
         sending == Sending
     IN
     net' =
       CASE outcome = "ok" ->
              [sending EXCEPT !.now = answered, !.pc = "idle",
                              !.result = "response"]
         [] outcome = "429" ->
              [sending EXCEPT
                 !.now = answered + 10,
                 !.waits = Append(@, [attempt |-> k, cause |-> "429",
                                      secs |-> 10]),
                 !.attempt = k,
                 !.pc = IF k = max_retries THEN "idle" ELSE "request",
                 !.result = IF k = max_retries THEN "None" ELSE "none"]
         [] outcome = "error" ->
              IF k = max_retries
                THEN [sending EXCEPT !.now = answered, !.pc = "idle",
                                     !.result = "raised"]
                ELSE [sending EXCEPT
                        !.now = answered + 5,
                        !.waits = Append(@, [attempt |-> k, cause |-> "error",
                                             secs |-> 5]),
                        !.attempt = k]
  /\ UNCHANGED <<session_state, fn, arg, out>>

\* Lines 169-192: one pass of the retry loop.  The request is sent now and
\* answered `latency` seconds later with `outcome`: "ok" (a response that
\* passes raise_for_status), "429", or "error" (a RequestException: no
\* answer, or an error status).
Attempt(outcome, latency) ==
  /\ net.pc = "request"
  /\ LET k == net.attempt + 1
         answered == net.now + latency
         sending == Sending
     IN
     net' =
       CASE outcome = "ok" ->
              [sending EXCEPT !.now = answered, !.pc = "idle",
                              !.result = "response"]
         [] outcome = "429" ->
              [sending EXCEPT
                 !.now = answered + 10 * k,
                 !.waits = Append(@, [attempt |-> k, cause |-> "429",
                                      secs |-> 10 * k]),
                 !.attempt = k,
                 !.pc = IF k = max_retries THEN "idle" ELSE "request",
                 !.result = IF k = max_retries THEN "None" ELSE "none"]
         [] outcome = "error" ->
              IF k = max_retries
                THEN [sending EXCEPT !.now = answered, !.pc = "idle",
                                     !.result = "raised"]
                ELSE [sending EXCEPT
                        !.now = answered + 5 * k,
                        !.waits = Append(@, [attempt |-> k, cause |-> "error",
                                             secs |-> 5 * k]),
                        !.attempt = k]
  /\ UNCHANGED <<session_state, fn, arg, out>>

HttpOutcomes == {"ok", "429", "error"}

\* The backend answers the request that is out.
Answer == \E outcome \in HttpOutcomes, latency \in {0, MaxLatency} :
            Attempt(outcome, latency)

ApiNext ==
  \/ \E idle \in {0, MaxIdle} : Invoke(idle)
  \/ Answer

SpecApi == Init /\ [][ApiNext]_vars

\* requests.post has timeout=120 (line 175): every request is answered.
SpecApiFair == SpecApi /\ WF_vars(Answer)

\* ------------------------------------------ single-function checks
\* The payloads a single call is checked on: every dict within MaxDev
\* keys of the empty, the well-formed or the all-empty one, lists of key
\* names, a number and null.
DraftPayloadsFn ==
  {Dict(d) : d \in Family({EmptyDict, FullDraft, BlankDraft}, DocKeys, DevVals, MaxDev)}
  \cup {ListOf(S) : S \in {{}, Range(required_keys), DocKeys}}
  \cup {NumVal, NoneVal}

CritiquePayloadsFn ==
  {Dict(d) : d \in Family({EmptyDict, FullCritique}, CritiqueKeys, DevVals, MaxDev)}
  \cup {ListOf(S) : S \in {{}, CritiqueKeys, CritiqueKeys \ {"recommendations"}}}
  \cup {NumVal, NoneVal}

RefinePayloadsFn ==
  {Dict(d) : d \in Family({EmptyDict, FullRefined, BlankRefined}, DocKeys, DevVals, MaxDev)}
  \cup {ListOf(S) : S \in {{}, Range(required_keys),
                           Range(required_keys) \cup {"executiveSummary"}, DocKeys}}
  \cup {NumVal, NoneVal}

PlanPayloadsFn == {Dict(d) : d \in PlanDicts} \cup {ListOf({}), NumVal, NoneVal}

SomeSources == generic_sources(<<"query 1">>)

SubtopicArgs ==
  {GivenSubtopics, PyList(<<>>), PyNum, PyList(<<"Subtopic 1", NonStr>>)}

\* Drafts as generate_draft returns them.
DraftArgs ==
  {Dict(FullDraft), Dict(SetItem(FullDraft, "appendix", "generated text")),
   Dict(FallbackDraft("AI in Healthcare", "Medicine", GivenSubtopics.v))}

\* Critique reports as critique_draft returns them.
CritiqueArgs ==
  {Dict(FallbackCritique), Dict(FullCritique), ListOf(CritiqueKeys),
   Dict(SetItem(FullCritique, "recommendations", "<num>"))}

QueryArgs ==
  {PyList(GivenQueries(n)) : n \in 0..MaxQueries}
  \cup {PyNum, PyList(<<"query 1", NonStr>>)}

\* A placement of hits: each hit is the query that returned it and a URL.
HitSeqs(n) ==
  UNION {[1..m -> (1..n) \X Urls] : m \in 0..(IF n = 0 THEN 0 ELSE MaxHits)}

RECURSIVE UrlsOf(_, _)
UrlsOf(hits, i) ==
  IF hits = <<>> THEN <<>>
  ELSE (IF Head(hits)[1] = i THEN <<Head(hits)[2]>> ELSE <<>>)
       \o UrlsOf(Tail(hits), i)

\* The search outcomes for n queries with the hits placed as in `hits`;
\* a query without a hit ends as `quiet` says.
ResFrom(n, hits, quiet) ==
  [i \in 1..n |->
     IF UrlsOf(hits, i) = <<>> THEN SearchResult(quiet, <<>>)
     ELSE SearchResult("ok", UrlsOf(hits, i))]

Searched(queries) ==
  IF queries.t = "list" THEN Min(QueryLimit, Len(queries.v)) ELSE 0

WebResults(n) ==
  {ResFrom(n, h, quiet) : h \in HitSeqs(n), quiet \in {"raise", "none", "nocontent"}}

\* Text that holds HTML markup characters.
MarkupTexts ==
  {"<script>alert(1)</script>", "<b>R. Roe</b>", "<img src=x onerror=1>",
   "[<h2> sections]", "<i>title</i>"}

\* Refined documents as refine_draft returns them, and with generated
\* text that holds markup.
ReportDraftArgs ==
  {Dict(FullRefined), Dict(FullDraft), ListOf(DocKeys),
   Dict(SetItem(FullRefined, "abstract", "<img src=x onerror=1>")),
   Dict(SetItem(FullRefined, "mainSections", "[<h2> sections]"))}

ReportForms ==
  {Form("AI in Healthcare", "Medicine", "R. Roe", "Univ"),
   Form("<script>alert(1)</script>", "Medicine", "<b>R. Roe</b>", "Univ")}

\* A source as another producer may hand it over: any title and any
\* dateAccessed.
SourceDated(title, dateAccessed) ==
  [Source(title, UrlMit, "<context>", "query 1", 95)
     EXCEPT !.dateAccessed = dateAccessed]

ReportSourceArgs ==
  {<<>>, SomeSources,
   <<SourceDated("A title", "2024-05-01T10:00:00"), SourceDated("<i>title</i>", "<now>")>>,
   <<SourceDated("A title", "<now>"), SourceDated("A title", "<missing>")>>,
   <<SourceDated("A title", "yesterday")>>}

FnArgs ==
  [name : {"analyze_topic_with_ai"}, topic : {"AI in Healthcare"},
   subject : {"Medicine"}, resp : AllResponses(PlanPayloadsFn)]
  \cup UNION {[name : {"execute_web_research"}, queries : {q},
               res : WebResults(Searched(q))] : q \in QueryArgs}
  \cup [name : {"generate_draft"}, topic : {"AI in Healthcare"},
        subject : {"Medicine"}, subtopics : SubtopicArgs,
        sources : {SomeSources}, resp : AllResponses(DraftPayloadsFn)]
  \cup [name : {"critique_draft"}, draft : {Dict(FullDraft)},
        sources : {SomeSources}, resp : AllResponses(CritiquePayloadsFn)]
  \cup [name : {"refine_draft"}, draft : DraftArgs, critique : CritiqueArgs,
        sources : {SomeSources}, resp : AllResponses(RefinePayloadsFn)]
  \cup [name : {"calculate_credibility"}, url : CredUrls]
  \cup [name : {"generate_html_report"}, refined_draft : ReportDraftArgs,
        form_data : ReportForms, sources : ReportSourceArgs, today : Days]

FnInit == SessionInit /\ arg \in FnArgs /\ fn = arg.name /\ out = NoCall

Apply(name, r) ==
  /\ fn = name
  /\ out = NoCall
  /\ out' = [name |-> name] @@ r
  /\ UNCHANGED <<session, fn, arg>>

ApplyAnalyze ==
  Apply("analyze_topic_with_ai",
        analyze_topic_with_ai(arg.topic, arg.subject, arg.resp, API_AVAILABLE))

ApplyWebResearch ==
  Apply("execute_web_research",
        execute_web_research(arg.queries, arg.res, API_AVAILABLE))

ApplyDraft ==
  Apply("generate_draft",
        generate_draft(arg.topic, arg.subject, arg.subtopics, arg.sources,
                       arg.resp, API_AVAILABLE))

ApplyCritique ==
  Apply("critique_draft",
        critique_draft(arg.draft, arg.sources, arg.resp, API_AVAILABLE))

ApplyRefine ==
  Apply("refine_draft",
        refine_draft(arg.draft, arg.critique, arg.sources, arg.resp,
                     API_AVAILABLE))

ApplyCredibility ==
  Apply("calculate_credibility",
        Ret(calculate_credibility(arg.url)) @@ Did(0, <<>>))

ApplyReport ==
  Apply("generate_html_report",
        generate_html_report(arg.refined_draft, arg.form_data, arg.sources,
                             arg.today))

FnNext ==
  \/ ApplyCredibility
  \/ ApplyReport
  \/ ApplyAnalyze
  \/ ApplyWebResearch
  \/ ApplyDraft
  \/ ApplyCritique
  \/ ApplyRefine

SpecFn == FnInit /\ [][FnNext]_vars

Next ==
  \/ \E f \in Forms, avail \in BOOLEAN : EditForm(f, avail)
  \/ \E avail \in BOOLEAN : GenerateReport(avail)
  \/ \E resp \in Responses(PlanPayloads) : AnalysisStage(resp)
  \/ \E res \in [1..Min(QueryLimit, Len(research.queries.v)) -> SearchResults] :
       ResearchStage(res)
  \/ \E resp \in Responses(DraftPayloads) : DraftStage(resp)
  \/ \E resp \in Responses(CritiquePayloads) : CritiqueStage(resp)
  \/ \E resp \in Responses(RefinePayloads) : RefineStage(resp)
  \/ \E today \in Days : ReportStage(today)
  \/ \E avail \in BOOLEAN : reset_system(avail)

Spec == Init /\ [][Next]_vars

\* The next stage call of a run under way.
RunStage ==
  \/ \E resp \in Responses(PlanPayloads) : AnalysisStage(resp)
  \/ \E res \in [1..Min(QueryLimit, Len(research.queries.v)) -> SearchResults] :
       ResearchStage(res)
  \/ \E resp \in Responses(DraftPayloads) : DraftStage(resp)
  \/ \E resp \in Responses(CritiquePayloads) : CritiqueStage(resp)
  \/ \E resp \in Responses(RefinePayloads) : RefineStage(resp)
  \/ \E today \in Days : ReportStage(today)

\* execute_research_pipeline is straight-line code over calls that each
\* return or raise (bounded retries, timeout=120 on every request), so a
\* run under way takes its next stage call.
SpecFair == Spec /\ WF_vars(RunStage)

\* ------------------------------------------------------------ claims
StageOrder == <<"analysis", "research", "draft", "critique", "refine", "report">>

\* Call k of the run ended in a hard failure: the stage raised, or the
\* analysis returned nothing for the orchestrator to subscript.
HardFailure(k) ==
  invoked[k].raised
  \/ (invoked[k].stage = "analysis" /\ invoked[k].value.t = "None")

MissingKeyMessage == "Anthropic API key not configured in Streamlit secrets."

\* C1: a hard failure (a stage call that raised, or the missing
\* credential) leaves step = 'error' and is the last thing the run did:
\* no stage is invoked after it and the run is never 'complete'.
C1_HardFailureHalts ==
  /\ \A k \in DOMAIN invoked :
       HardFailure(k) => k = Len(invoked) /\ step = "error" /\ pc = "idle"
  /\ (step = "error" /\ ~API_AVAILABLE) => invoked = <<>> /\ pc = "idle"
  /\ step = "complete" => \A k \in DOMAIN invoked : ~HardFailure(k)

C1_Witness ==
  step = "error" /\ Len(invoked) = 3 /\ invoked[3].stage = "draft" /\ invoked[3].raised

\* The documented fallback of each stage, for the arguments it was given.
FallbackOf(c) ==
  CASE c.stage = "analysis" -> Dict(FallbackPlan(c.args[1]))
    [] c.stage = "research" -> generic_sources(c.args[1].v)
    [] c.stage = "draft" -> Dict(FallbackDraft(c.args[1], c.args[2], c.args[3].v))
    [] c.stage = "critique" -> Dict(FallbackCritique)
    [] c.stage = "refine" ->
         Dict(SetItem(c.args[1].d, "executiveSummary", FallbackSummary(c.args[3])))

\* C2: with the key configured and every backend call raising, each of
\* the five backend stages returns its fallback structure, none raises,
\* and the run, once over, is 'complete'.
C2_BackendDownStillCompletes ==
  (backend_down /\ invoked # <<>>) =>
    /\ \A k \in DOMAIN invoked :
         /\ ~HardFailure(k)
         /\ invoked[k].stage # "report" => invoked[k].value = FallbackOf(invoked[k])
    /\ step # "error"
    /\ pc = "idle" => step = "complete"

C2_Witness == backend_down /\ step = "complete" /\ Len(invoked) = 6

\* C3: no stage returns nothing or raises, the run never ends in 'error'
\* once a stage has been invoked, and the analysis always returns a plan
\* with non-empty subtopics and queries.  (In a run with the key, backend
\* exceptions are caught inside the stages, so a hard failure can only
\* come from the shape of a backend output.)
C3_MalformedOutputRecovered ==
  /\ \A k \in DOMAIN invoked : ~HardFailure(k)
  /\ invoked # <<>> => step # "error"
  /\ \A k \in DOMAIN invoked :
       invoked[k].stage = "analysis" =>
         /\ invoked[k].value.t = "dict"
         /\ TruthyList(invoked[k].value.d.subtopics)
         /\ TruthyList(invoked[k].value.d.researchQueries)

\* C4: a start-run request made without the key ends at once in step
\* 'error' with the missing key named, no stage invoked and no backend
\* call counted; and it stays so until the reset.
C4_MissingKeyRefused ==
  /\ [][(step = "input" /\ step' # "input" /\ ~API_AVAILABLE') =>
          /\ step' = "error"
          /\ progress'.detail = MissingKeyMessage
          /\ invoked' = <<>>
          /\ api_call_count' = 0
          /\ pc' = "idle"
          /\ ~is_processing']_vars
  /\ []((step = "error" /\ ~API_AVAILABLE) =>
          /\ progress.detail = MissingKeyMessage
          /\ invoked = <<>>
          /\ api_call_count = 0
          /\ pc = "idle")

C4_Witness == step = "error" /\ ~API_AVAILABLE

\* C5: the calls of a run are the stages in their fixed order, each at
\* most once; a stage is called only after its predecessor returned; and
\* each is given the outputs its predecessors returned in this run.
C5_StagesInSequence ==
  /\ Len(invoked) <= Len(StageOrder)
  /\ \A k \in DOMAIN invoked :
       /\ invoked[k].stage = StageOrder[k]
       /\ k < Len(invoked) => ~HardFailure(k)
  /\ Len(invoked) >= 2 =>
       invoked[2].args = <<invoked[1].value.d.researchQueries>>
  /\ Len(invoked) >= 3 =>
       invoked[3].args = <<form_data.topic, form_data.subject,
                           invoked[1].value.d.subtopics, invoked[2].value>>
  /\ Len(invoked) >= 4 =>
       invoked[4].args = <<invoked[3].value, invoked[2].value>>
  /\ Len(invoked) >= 5 =>
       invoked[5].args = <<invoked[3].value, invoked[4].value, invoked[2].value>>
  /\ Len(invoked) >= 6 =>
       invoked[6].args = <<invoked[5].value, form_data, invoked[2].value>>

C5_Witness == step = "complete" /\ Len(invoked) = 6 /\ ~backend_down

\* C6: a complete run's final report has executiveSummary and every
\* required section present and non-empty.
C6_CompleteReportHasNoEmptyField ==
  step = "complete" =>
    /\ final_report.t = "dict"
    /\ \A key \in Range(required_keys) \cup {"executiveSummary"} :
         key \in DOMAIN final_report.d /\ Truthy(final_report.d[key])

\* C7: whatever the backend gives, the draft generate_draft returns has
\* every required section present with a non-empty, non-null value.
C7_DraftComplete ==
  (out.name = "generate_draft" /\ ~out.raised) =>
    /\ out.value.t = "dict"
    /\ \A key \in Range(required_keys) :
         key \in DOMAIN out.value.d /\ Truthy(out.value.d[key])

C7_Witness ==
  /\ out.name = "generate_draft"
  /\ ~out.raised
  /\ API_AVAILABLE
  /\ arg.resp.kind = "ok"
  /\ arg.resp.text.json = Dict(BlankDraft)
  /\ ~arg.resp.text.prose

\* C8: the document refine_draft returns has every key of the draft it
\* was given, and executiveSummary.
C8_RefineAdditive ==
  (out.name = "refine_draft" /\ ~out.raised) =>
    /\ out.value.t = "dict"
    /\ (DOMAIN arg.draft.d \cup {"executiveSummary"}) \subseteq DOMAIN out.value.d

\* The critique call's generation failed: the backend call did not give
\* text, or the text did not parse to a JSON object.
GenerationFailed(resp) ==
  resp.kind # "ok" \/ resp.text.json.t # "dict" \/ ~API_AVAILABLE

\* C9: the report critique_draft returns has overallScore and the seven
\* list fields; when generation failed all seven lists are empty and
\* overallScore is 80.
C9_CritiqueFullyPopulated ==
  out.name = "critique_draft" =>
    /\ ~out.raised
    /\ out.value.t = "dict"
    /\ CritiqueKeys \subseteq DOMAIN out.value.d
    /\ GenerationFailed(arg.resp) =>
         /\ \A key \in Range(list_keys) : out.value.d[key] = "[]"
         /\ out.value.d["overallScore"] = "80"

\* C10: the source list execute_web_research returns has at most one
\* entry per case-normalized URL.
C10_OneSourcePerNormalizedUrl ==
  (out.name = "execute_web_research" /\ ~out.raised) =>
    \A i, j \in DOMAIN out.value :
      i # j => lower(out.value[i].url) # lower(out.value[j].url)

\* C11: every source execute_web_research returns has a URL that matches
\* the trusted-domain allowlist.
C11_OnlyAllowlistedSources ==
  (out.name = "execute_web_research" /\ ~out.raised) =>
    \A k \in DOMAIN out.value : is_trusted(out.value[k].url)

\* C12: the reference list of a complete run numbers the accepted sources
\* 1..N in acceptance order, without gaps: reference i is numbered i and
\* cites the i-th source web research returned.
C12_ReferenceNumbersContiguous ==
  step = "complete" =>
    LET refs == html_report.doc.references
        accepted == invoked[2].value
    IN /\ research.sources = accepted
       /\ DOMAIN refs = 1..Len(accepted)
       /\ {refs[i].number : i \in DOMAIN refs} = 1..Len(accepted)
       /\ \A i \in DOMAIN refs :
            /\ refs[i].number = i
            /\ refs[i].url = accepted[i].url
            /\ refs[i].title = accepted[i].title

C12_Witness ==
  /\ step = "complete"
  /\ Len(research.sources) = 5
  /\ research.sources[1].url = UrlMit
  /\ html_report.doc.references[5].url = UrlRand

\* C13: calculate_credibility applies the tiers in priority order, first
\* match wins: .gov or .edu gives 95; else nature.com or science.org 95;
\* else ieee.org or acm.org 90; else .org 85; else 80.  So every score is
\* one of 80, 85, 90, 95 and https://mit.edu/a scores at least 90.
C13_CredibilityTiers ==
  out.name = "calculate_credibility" =>
    LET u == lower(arg.url)
        score == out.value
        tier1 == Contains(u, <<".gov">>) \/ Contains(u, <<".edu">>)
        tier2 == Contains(u, <<"nature", ".com">>) \/ Contains(u, <<"science", ".org">>)
        tier3 == Contains(u, <<"ieee", ".org">>) \/ Contains(u, <<"acm", ".org">>)
        tier4 == Contains(u, <<".org">>)
    IN /\ ~out.raised
       /\ score \in {80, 85, 90, 95}
       /\ tier1 => score = 95
       /\ (~tier1 /\ tier2) => score = 95
       /\ (~tier1 /\ ~tier2 /\ tier3) => score = 90
       /\ (~tier1 /\ ~tier2 /\ ~tier3 /\ tier4) => score = 85
       /\ (~tier1 /\ ~tier2 /\ ~tier3 /\ ~tier4) => score = 80
       /\ arg.url = UrlMit => score >= 90

C13_Witness ==
  out.name = "calculate_credibility" /\ arg.url = UrlScience /\ out.value = 95

\* The pieces a URL's path can begin with.
PathStarts ==
  {"/a", "/A", "/b", "/research", "/publication", "/post", "/articles",
   "/doi", "/document", "/paper"}

\* The host of a URL, case-normalized: what lies between the scheme and
\* the path.
Host(url) ==
  LET k == CHOOSE i \in DOMAIN url :
             url[i] \in PathStarts /\ \A j \in 1..(i - 1) : url[j] \notin PathStarts
  IN lower(SubSeq(url, 2, k - 1))

\* C14: two URLs with the same host get the same credibility score and
\* the same allowlist decision, whatever their paths and query strings.
C14_ScoreFromDomainOnly ==
  out.name = "calculate_credibility" =>
    \A other \in CredUrls :
      Host(other) = Host(arg.url) =>
        /\ calculate_credibility(other) = out.value
        /\ is_trusted(other) <=> is_trusted(arg.url)

\* A list of strings, one at least.
StringQueries(queries) ==
  /\ queries.t = "list"
  /\ queries.v # <<>>
  /\ \A i \in DOMAIN queries.v : queries.v[i] # NonStr

\* C15: a search call that fails does not abort the others: every query
\* among the executed ones is searched, the trusted hits of every query
\* whose call succeeded are in the result, a query whose call failed
\* contributes none, and the function returns.
C15_QueryFailureIsolated ==
  (out.name = "execute_web_research" /\ StringQueries(arg.queries)) =>
    /\ ~out.raised
    /\ out.searched = SubSeq(arg.queries.v, 1, Len(arg.res))
    /\ \A i \in DOMAIN arg.res :
         (API_AVAILABLE /\ arg.res[i].kind = "ok") =>
           \A u \in Range(arg.res[i].urls) :
             is_trusted(u) => \E k \in DOMAIN out.value : out.value[k].url = u
    /\ \A k \in DOMAIN out.value :
         out.value[k].title = "<context>" =>
           \E i \in DOMAIN arg.res :
             /\ API_AVAILABLE
             /\ arg.res[i].kind = "ok"
             /\ arg.queries.v[i] = out.value[k].query
             /\ out.value[k].url \in Range(arg.res[i].urls)

C15_Witness ==
  /\ out.name = "execute_web_research"
  /\ API_AVAILABLE
  /\ ~out.raised
  /\ Len(arg.res) >= 3
  /\ arg.res[1].kind = "ok" /\ arg.res[1].urls = <<UrlMit>>
  /\ arg.res[2].kind = "raise"
  /\ arg.res[3].kind = "ok" /\ arg.res[3].urls = <<UrlNature>>

\* C16: for a list of n queries exactly the first min(6, n) are searched,
\* once each and in list order; no run makes more than 6 search calls.
C16_AtMostSixSearches ==
  (out.name = "execute_web_research" /\ arg.queries.t = "list"
   /\ \A i \in DOMAIN arg.queries.v : arg.queries.v[i] # NonStr) =>
    /\ out.searched = (IF Len(arg.queries.v) <= 6 THEN arg.queries.v
                       ELSE SubSeq(arg.queries.v, 1, 6))
    /\ Len(out.searched) <= 6
    /\ API_AVAILABLE => out.calls = Len(out.searched)

C16_Witness ==
  /\ out.name = "execute_web_research"
  /\ Len(arg.queries.v) = 7
  /\ Len(out.searched) = 6
  /\ out.searched[6] = "query 6"

\* C17: the query list recorded for a run never holds more than the
\* configured maximum of 15 queries.
C17_PlannedQueriesCapped ==
  research.queries.t = "list" => Len(research.queries.v) <= 15

\* The run state as reset_system must leave it.
RunStateCleared ==
  /\ step = "input"
  /\ research.queries = PyList(<<>>)
  /\ research.sources = <<>>
  /\ research.subtopics = PyList(<<>>)
  /\ draft.t = "None"
  /\ critique.t = "None"
  /\ final_report.t = "None"
  /\ ~html_report.present
  /\ progress.num = 0
  /\ ~is_processing
  /\ api_call_count = 0

\* C18: leaving step 'error' or 'complete' clears the run state (research
\* record, draft, critique, final report, HTML report, progress percent,
\* processing flag, call count), and step 'input' never shows anything a
\* run produced.
C18_ResetClearsRunState ==
  /\ [][(step \in {"error", "complete"} /\ step' # step) => RunStateCleared']_vars
  /\ [](step = "input" => RunStateCleared)

C18_Witness ==
  reset_from = "complete" /\ step = "input" /\ pc = "idle" /\ invoked = <<>>

\* C19: 'error' and 'complete' are terminal: the only step out of them is
\* the reset to 'input', no stage runs in them, and a run starts only
\* from 'input'.
C19_TerminalUntilReset ==
  /\ [][(step \in {"error", "complete"}) =>
          (step' = "input" /\ reset_from' = step)]_vars
  /\ [][(pc = "idle" /\ pc' # "idle") => step = "input"]_vars
  /\ [][(invoked # <<>> /\ invoked' = <<>>) => step \in {"error", "complete"}]_vars
  /\ [](step \in {"error", "complete"} => pc = "idle")

C19_Witness ==
  reset_from = "error" /\ step = "processing" /\ pc = "draft"

\* C20: the stored progress percent is always in 0..100 and, while a run
\* is under way, no update lowers it, the update of a failing run
\* included.
C20_ProgressNeverDecreases ==
  /\ [](0 <= progress.num /\ progress.num <= 100 * progress.den)
  /\ [][pc # "idle" =>
          progress'.num * progress.den >= progress.num * progress'.den]_vars

\* C21: every request sent to the backend is sent at least 2 seconds
\* after the previous request of the session.
C21_RequestsTwoSecondsApart ==
  net.min_gap = -1 \/ net.min_gap >= 2

\* C22: an invocation sends at most 3 requests; after the k-th attempt is
\* throttled it sleeps 10*k seconds (k = 1, 2, 3), after the k-th fails
\* with a request error (k < 3) it sleeps 5*k seconds, and the next
\* attempt is not sent earlier; every invocation ends.
C22_BoundedRetryLinearBackoff ==
  /\ [](/\ net.tries <= 3
        /\ Len(net.waits) <= net.tries
        /\ \A k \in DOMAIN net.waits :
             /\ net.waits[k].attempt = k
             /\ net.waits[k].cause = "429" => net.waits[k].secs = 10 * k
             /\ net.waits[k].cause = "error" => (k < 3 /\ net.waits[k].secs = 5 * k)
        /\ (net.pc = "request" /\ net.tries >= 1) =>
             /\ Len(net.waits) = net.tries
             /\ net.now - net.last_sent >= net.waits[net.tries].secs)
  /\ (net.pc = "request") ~> (net.pc = "idle")

C22_Witness ==
  /\ net.pc = "idle"
  /\ net.tries = 3
  /\ net.waits[1].cause = "429"
  /\ net.waits[2].cause = "error"
  /\ net.result = "raised"

\* C23: an invocation that has ended returned a response or raised an
\* error; it never ends without a response and without an error.
C23_ReturnsResponseOrRaises ==
  (net.pc = "idle" /\ net.invocations > 0) => net.result \in {"response", "raised"}

\* C24: the reference entries generate_html_report prints for a source list
\* are the same on whatever day it is called, and entry i is numbered i.
C24_ReferencesDeterministic ==
  (out.name = "generate_html_report" /\ ~out.raised) =>
    /\ \A day \in Days :
         generate_html_report(arg.refined_draft, arg.form_data, arg.sources,
                              day).value.references
           = out.value.references
    /\ \A i \in DOMAIN out.value.references : out.value.references[i].number = i

\* C25: no text holding markup characters, user-supplied or generated, is
\* printed into the document as it is.
C25_MarkupEscaped ==
  (out.name = "generate_html_report" /\ ~out.raised) =>
    /\ \A key \in DOMAIN out.value \ {"references"} :
         out.value[key] \notin MarkupTexts
    /\ \A i \in DOMAIN out.value.references :
         out.value.references[i].title \notin MarkupTexts

\* C26: a run under way ends: execute_research_pipeline returns with step
\* 'complete' or 'error' and is_processing false; outside a run the step
\* is never 'processing'.
C26_RunTerminates ==
  /\ [](pc = "idle" => (step \in {"input", "complete", "error"} /\ ~is_processing))
  /\ (pc # "idle") ~>
       (pc = "idle" /\ step \in {"complete", "error"} /\ ~is_processing)

C26_Witness ==
  /\ pc = "idle"
  /\ step = "error"
  /\ ~is_processing
  /\ Len(invoked) = 5
  /\ invoked[5].stage = "refine"

\* C27: the refine stage does not change the recorded draft: afterwards
\* it is still what generate_draft returned and holds no executiveSummary.
C27_RefineLeavesDraft ==
  /\ [][pc = "refine" => draft' = draft]_vars
  /\ []((pc = "report" \/ step = "complete") =>
          /\ draft = invoked[3].value
          /\ "executiveSummary" \notin DOMAIN draft.d)

\* C28: every source execute_web_research returns carries the score
\* calculate_credibility gives its URL.
C28_ScoreIsScorersScore ==
  (out.name = "execute_web_research" /\ ~out.raised) =>
    \A k \in DOMAIN out.value :
      out.value[k].credibilityScore = calculate_credibility(out.value[k].url)

\* C29: for a non-empty list of queries and any outcome of the searches,
\* execute_web_research returns at least 3 sources.
C29_AtLeastThreeSources ==
  (out.name = "execute_web_research" /\ StringQueries(arg.queries)) =>
    /\ ~out.raised
    /\ Len(out.value) >= 3

C29_Witness ==
  /\ out.name = "execute_web_research"
  /\ API_AVAILABLE
  /\ Len(arg.res) >= 2
  /\ \A i \in DOMAIN arg.res : arg.res[i].kind = "raise"
  /\ Len(out.value) = 3

\* C30: api_call_count is 0 when a run starts, counts one per backend
\* invocation, and in a complete run is 4 + min(6, number of research
\* queries), at most 10.
C30_CallCountPerInvocation ==
  LET n == Len(research.queries.v)
      searches == IF n < 6 THEN n ELSE 6
  IN /\ pc = "analysis" => api_call_count = 0
     /\ pc = "research" => api_call_count = 1
     /\ pc = "draft" => api_call_count = 1 + searches
     /\ pc = "critique" => api_call_count = 2 + searches
     /\ pc = "refine" => api_call_count = 3 + searches
     /\ step = "complete" => api_call_count = 4 + searches
     /\ api_call_count <= 10

C30_Witness ==
  step = "complete" /\ api_call_count = 10 /\ Len(research.queries.v) = MaxPlanned

====
